---- MODULE Spec2Model ----
(***************************************************************************)
(* Model of the Raspberry Pi test-board tooling:                            *)
(*   tools/rpi-test-board/emulation/scripts/run-pcb-emulation.py           *)
(*   tools/rpi-test-board/scripts/rpi-test-controller.py                   *)
(*                                                                         *)
(* Three specifications share the variables below:                         *)
(*   SpecDecode  PCBEmulator.parse_results run over bounded byte buffers   *)
(*   SpecEmu     PCBEmulator.run with its capture thread                   *)
(*   Spec        rpi-test-controller main() over the HTTP/serial transport *)
(***************************************************************************)
EXTENDS Integers, Sequences, FiniteSets, TLC

\* ------------------------------------------------------------------------
\* Bounds of the model
\* ------------------------------------------------------------------------
\* number of segments (noise bytes or telemetry frames) of a decoder input
MaxSegs == 3

\* ------------------------------------------------------------------------
\* Protocol constants of run-pcb-emulation.py
\* ------------------------------------------------------------------------
END_MARKER == <<222, 173, 190, 239, 202, 254, 186, 190>>

CMD_TEST_SUITE_START == 100
CMD_TEST_START == 101
CMD_TEST_PASS == 102
CMD_TEST_FAIL == 103
CMD_TEST_SKIP == 104
CMD_TEST_SUITE_END == 105

\* U+FFFD, what bytes.decode("utf-8", errors="replace") puts for bad input
REPLACEMENT_CHAR == 65533

\* ------------------------------------------------------------------------
\* Byte-sequence helpers (Python slicing, 0-based offsets)
\* ------------------------------------------------------------------------
\* data[a:b] for 0 <= a; the slice is clamped to the length, as in Python
Slice(data, a, b) ==
    LET hi == IF b > Len(data) THEN Len(data) ELSE b
    IN  IF a >= hi THEN <<>> ELSE SubSeq(data, a + 1, hi)

\* data[a:]
SliceFrom(data, a) == Slice(data, a, Len(data))

\* data[k] with a 0-based index
At(data, k) == data[k + 1]

\* endswith that leaves the last byte of the suffix out of the comparison
EndsWith_DropLast(data, suffix) ==
    /\ Len(data) >= Len(suffix) - 1
    /\ SubSeq(data, Len(data) - Len(suffix) + 2, Len(data))
         = SubSeq(suffix, 1, Len(suffix) - 1)

\* bytearray.endswith(suffix)
EndsWith(data, suffix) ==
    /\ Len(data) >= Len(suffix)
    /\ SubSeq(data, Len(data) - Len(suffix) + 1, Len(data)) = suffix

IsCont(b) == b >= 128 /\ b <= 191

\* bytes.decode("utf-8", errors="replace"): the sequence of code points.
\* An invalid start byte, or a lead byte whose continuation is wrong, gives
\* one U+FFFD for the bytes that were well-formed so far; a sequence cut by
\* the end of the input gives one U+FFFD for the rest.
RECURSIVE Utf8Replace(_)
Utf8Replace(b) ==
    IF b = <<>> THEN <<>>
    ELSE
      LET c  == b[1]
          n  == Len(b)
          need == IF c < 128 THEN 1
                  ELSE IF c >= 194 /\ c <= 223 THEN 2
                  ELSE IF c >= 224 /\ c <= 239 THEN 3
                  ELSE IF c >= 240 /\ c <= 244 THEN 4
                  ELSE 0
          \* is b[2] an admissible second byte after the lead c
          ok2 == /\ n >= 2
                 /\ IsCont(b[2])
                 /\ (c = 224 => b[2] >= 160)
                 /\ (c = 237 => b[2] <= 159)
                 /\ (c = 240 => b[2] >= 144)
                 /\ (c = 244 => b[2] <= 143)
          ok3 == n >= 3 /\ IsCont(b[3])
          ok4 == n >= 4 /\ IsCont(b[4])
      IN
      IF need = 1 THEN <<c>> \o Utf8Replace(Tail(b))
      ELSE IF need = 0 THEN <<REPLACEMENT_CHAR>> \o Utf8Replace(Tail(b))
      ELSE IF n = 1 THEN <<REPLACEMENT_CHAR>>
      ELSE IF ~ok2 THEN <<REPLACEMENT_CHAR>> \o Utf8Replace(Tail(b))
      ELSE IF need = 2
           THEN <<(c - 192) * 64 + (b[2] - 128)>> \o Utf8Replace(SliceFrom(b, 2))
      ELSE IF n = 2 THEN <<REPLACEMENT_CHAR>>
      ELSE IF ~ok3 THEN <<REPLACEMENT_CHAR>> \o Utf8Replace(SliceFrom(b, 2))
      ELSE IF need = 3
           THEN <<(c - 224) * 4096 + (b[2] - 128) * 64 + (b[3] - 128)>>
                \o Utf8Replace(SliceFrom(b, 3))
      ELSE IF n = 3 THEN <<REPLACEMENT_CHAR>>
      ELSE IF ~ok4 THEN <<REPLACEMENT_CHAR>> \o Utf8Replace(SliceFrom(b, 3))
      ELSE <<(c - 240) * 262144 + (b[2] - 128) * 4096
              + (b[3] - 128) * 64 + (b[4] - 128)>>
           \o Utf8Replace(SliceFrom(b, 4))

\* ------------------------------------------------------------------------
\* PCBEmulator.parse_results: field extraction
\* ------------------------------------------------------------------------
\* the 2-byte number read low byte first
U16Field_LittleEndian(payload) ==
    IF Len(payload) >= 2 THEN At(payload, 0) + At(payload, 1) * 256 ELSE 0

\* (payload[0] << 8) | payload[1] if len(payload) >= 2 else 0
U16Field(payload) ==
    IF Len(payload) >= 2 THEN At(payload, 0) * 256 + At(payload, 1) ELSE 0

\* payload[2:].decode("utf-8", errors="replace") if len(payload) > 2 else ""
TextField(payload) ==
    IF Len(payload) > 2 THEN Utf8Replace(SliceFrom(payload, 2)) ELSE <<>>

\* (payload[2] << 24) | (payload[3] << 16) | (payload[4] << 8) | payload[5]
\* if len(payload) >= 6 else 0
DurationField(payload) ==
    IF Len(payload) >= 6
    THEN At(payload, 2) * 16777216 + At(payload, 3) * 65536
         + At(payload, 4) * 256 + At(payload, 5)
    ELSE 0

\* the results dict as parse_results creates it
EmptyResults ==
    [suite_name |-> <<>>, total |-> 0, passed |-> 0, failed |-> 0,
     skipped |-> 0, tests |-> <<>>]

\* ApplyFrame with a SUITE_END that only overwrites the expected total
ApplyFrame_KeepObserved(res, cmd, payload) ==
    IF cmd = CMD_TEST_SUITE_START
    THEN [res EXCEPT !.suite_name = TextField(payload),
                     !.total = U16Field(payload)]
    ELSE IF cmd = CMD_TEST_PASS
    THEN [res EXCEPT !.passed = @ + 1,
                     !.tests = Append(@, [num |-> U16Field(payload),
                                          status |-> "pass",
                                          duration |-> DurationField(payload)])]
    ELSE IF cmd = CMD_TEST_FAIL
    THEN [res EXCEPT !.failed = @ + 1,
                     !.tests = Append(@, [num |-> U16Field(payload),
                                          status |-> "fail",
                                          error |-> TextField(payload)])]
    ELSE IF cmd = CMD_TEST_SKIP
    THEN [res EXCEPT !.skipped = @ + 1,
                     !.tests = Append(@, [num |-> U16Field(payload),
                                          status |-> "skip",
                                          reason |-> TextField(payload)])]
    ELSE IF cmd = CMD_TEST_SUITE_END /\ Len(payload) >= 6
    THEN [res EXCEPT !.total = At(payload, 0) * 256 + At(payload, 1)]
    ELSE res

\* ApplyFrame with a TEST_SKIP that is counted as a failure
ApplyFrame_SkipAsFail(res, cmd, payload) ==
    IF cmd = CMD_TEST_SUITE_START
    THEN [res EXCEPT !.suite_name = TextField(payload),
                     !.total = U16Field(payload)]
    ELSE IF cmd = CMD_TEST_START
    THEN res
    ELSE IF cmd = CMD_TEST_PASS
    THEN [res EXCEPT !.passed = @ + 1,
                     !.tests = Append(@, [num |-> U16Field(payload),
                                          status |-> "pass",
                                          duration |-> DurationField(payload)])]
    ELSE IF cmd = CMD_TEST_FAIL
    THEN [res EXCEPT !.failed = @ + 1,
                     !.tests = Append(@, [num |-> U16Field(payload),
                                          status |-> "fail",
                                          error |-> TextField(payload)])]
    ELSE IF cmd = CMD_TEST_SKIP
    THEN [res EXCEPT !.failed = @ + 1,
                     !.tests = Append(@, [num |-> U16Field(payload),
                                          status |-> "skip",
                                          reason |-> TextField(payload)])]
    ELSE IF cmd = CMD_TEST_SUITE_END
    THEN IF Len(payload) >= 6
         THEN [res EXCEPT !.total = At(payload, 0) * 256 + At(payload, 1),
                          !.passed = At(payload, 2) * 256 + At(payload, 3),
                          !.failed = At(payload, 4) * 256 + At(payload, 5)]
         ELSE res
    ELSE res

\* the if/elif chain of parse_results applied to one frame
ApplyFrame(res, cmd, payload) ==
    IF cmd = CMD_TEST_SUITE_START
    THEN [res EXCEPT !.suite_name = TextField(payload),
                     !.total = U16Field(payload)]
    ELSE IF cmd = CMD_TEST_START
    THEN res
    ELSE IF cmd = CMD_TEST_PASS
    THEN [res EXCEPT !.passed = @ + 1,
                     !.tests = Append(@, [num |-> U16Field(payload),
                                          status |-> "pass",
                                          duration |-> DurationField(payload)])]
    ELSE IF cmd = CMD_TEST_FAIL
    THEN [res EXCEPT !.failed = @ + 1,
                     !.tests = Append(@, [num |-> U16Field(payload),
                                          status |-> "fail",
                                          error |-> TextField(payload)])]
    ELSE IF cmd = CMD_TEST_SKIP
    THEN [res EXCEPT !.skipped = @ + 1,
                     !.tests = Append(@, [num |-> U16Field(payload),
                                          status |-> "skip",
                                          reason |-> TextField(payload)])]
    ELSE IF cmd = CMD_TEST_SUITE_END
    THEN IF Len(payload) >= 6
         THEN [res EXCEPT !.total = At(payload, 0) * 256 + At(payload, 1),
                          !.passed = At(payload, 2) * 256 + At(payload, 3),
                          !.failed = At(payload, 4) * 256 + At(payload, 5)]
         ELSE res
    ELSE res

\* length = (data[offset + 1] << 8) | data[offset + 2]
FrameLength(data, off) == At(data, off + 1) * 256 + At(data, off + 2)

\* while offset < len(data) - 3
ScanContinues(data, off) == off < Len(data) - 3

\* NotACode with the lower limit of the code range off by three
NotACode_From103(cmd) == cmd < 103 \/ cmd > 105

\* if cmd < 100 or cmd > 105
NotACode(cmd) == cmd < 100 \/ cmd > 105

\* if offset + 3 + length > len(data): break
FrameOverruns(data, off) == off + 3 + FrameLength(data, off) > Len(data)

\* ScanStep with a noise byte that is skipped without advancing the offset
ScanStep_NoAdvance(data, off, res) ==
    IF NotACode(At(data, off))
    THEN [offset |-> off, results |-> res, stop |-> FALSE]
    ELSE IF FrameOverruns(data, off)
    THEN [offset |-> off, results |-> res, stop |-> TRUE]
    ELSE [offset |-> off + 3 + FrameLength(data, off),
          results |-> ApplyFrame(res, At(data, off),
                                 Slice(data, off + 3,
                                       off + 3 + FrameLength(data, off))),
          stop |-> FALSE]

\* one iteration of the scan loop from offset off: the new offset and results,
\* and whether the loop was left by break
ScanStep(data, off, res) ==
    IF NotACode(At(data, off))
    THEN [offset |-> off + 1, results |-> res, stop |-> FALSE]
    ELSE IF FrameOverruns(data, off)
    THEN [offset |-> off, results |-> res, stop |-> TRUE]
    ELSE [offset |-> off + 3 + FrameLength(data, off),
          results |-> ApplyFrame(res, At(data, off),
                                 Slice(data, off + 3,
                                       off + 3 + FrameLength(data, off))),
          stop |-> FALSE]

\* the whole scan loop of parse_results, from offset off with results res
RECURSIVE ScanFrom(_, _, _)
ScanFrom(data, off, res) ==
    IF ~ScanContinues(data, off) THEN res
    ELSE LET s == ScanStep(data, off, res)
         IN  IF s.stop THEN s.results ELSE ScanFrom(data, s.offset, s.results)

\* the dict parse_results returns for the buffer data
ParseAll(data) == ScanFrom(data, 0, EmptyResults)

\* ------------------------------------------------------------------------
\* State
\* ------------------------------------------------------------------------
VARIABLES
    pc,             \* position of the main thread (run() / main())
    exit_code,      \* process exit status, -1 while running
    output,         \* the --output file: [written, bytes]
    raised,         \* an exception is propagating out of run()'s try block
    uart_data,      \* PCBEmulator.uart_data
    offset,         \* parse_results: offset
    results,        \* parse_results: results
    test_complete,  \* PCBEmulator.test_complete (threading.Event flag)
    success,        \* PCBEmulator.success
    completed,      \* wait_for_completion: completed
    qemu,           \* PCBEmulator.qemu_process: "none", "running", "stopped"
    stream,         \* bytes the emulated target still has to write to the pipe
    cap_pc,         \* position of the capture_uart thread
    cap_data,       \* capture_uart: data (the result of read(1))
    cleanups,       \* number of calls of PCBEmulator.cleanup
    retval,         \* value run() is returning, -1 if none yet
    signals,        \* number of calls of test_complete.set()
    mode,           \* args.mode: "http" or "serial"
    ser,            \* SerialController.serial: "none", "open", "closed"
    rx,             \* bytes received on the serial link and not yet read
    wire,           \* what was written to the serial link, in order
    iso_size,       \* upload_iso: len(data)
    chunk_i,        \* upload_iso: i
    acks,           \* upload_iso: the ack read for each chunk, in order
    failed_chunk,   \* chunk number printed by "Chunk k/n failed", 0 if none
    ops,            \* controller operations main() has called, in order
    failed_op,      \* the operation that returned False or raised, or "none"
    elapsed,        \* time.time() - start_time in wait_for_completion
    timeout,        \* args.timeout
    wait_end,       \* which return of wait_for_completion was taken
    wait_success,   \* main: success
    uart_log,       \* main: uart_log
    target_log,     \* the UART log the board holds
    rsps,           \* the response codes send_command returned, in order
    cmd_in,         \* send_command: the arguments [code, data]
    echo_len,       \* how many bytes of the looped-back packet arrive
    rsp,            \* send_command: the tuple returned, code -1 if none
    signalled       \* SIGTERM or SIGINT was delivered to the process

emuVars == <<test_complete, success, completed, qemu, stream, cap_pc,
             cap_data, cleanups, retval, signals>>
decVars == <<uart_data, offset, results>>
ctlVars == <<mode, ser, rx, wire, iso_size, chunk_i, acks, failed_chunk, ops,
             failed_op, elapsed, timeout, wait_end, wait_success, uart_log,
             target_log, rsps>>
codecVars == <<cmd_in, echo_len, rsp>>
vars == <<pc, exit_code, output, raised, decVars, emuVars, ctlVars,
          codecVars, signalled>>

\* the controller script is not running
CtlUnused ==
    /\ mode = "none"
    /\ ser = "none"
    /\ rx = <<>>
    /\ wire = <<>>
    /\ iso_size = 0
    /\ chunk_i = 0
    /\ acks = <<>>
    /\ failed_chunk = 0
    /\ ops = <<>>
    /\ failed_op = "none"
    /\ elapsed = 0
    /\ timeout = 0
    /\ wait_end = "none"
    /\ wait_success = FALSE
    /\ uart_log = <<>>
    /\ target_log = <<>>
    /\ rsps = <<>>

\* what send_command has returned while it has not returned
NoRsp == [code |-> -1, data |-> <<>>]

\* send_command is not exercised on its own, no signal was delivered
CodecUnused ==
    /\ cmd_in = NoRsp
    /\ echo_len = 0
    /\ rsp = NoRsp
    /\ signalled = FALSE

NoOutput == [written |-> FALSE, bytes |-> <<>>]

\* ------------------------------------------------------------------------
\* Inputs of the decoder specification
\* ------------------------------------------------------------------------
\* code || len(2, big-endian) || payload
TelemetryFrame(code, payload) ==
    <<code, Len(payload) \div 256, Len(payload) % 256>> \o payload

\* single bytes outside the code range 100..105
NoiseBytes == {0, 6, 99, 106}

\* single bytes inside the code range
CodeBytes == {102, 105}

PassFrames ==
    { TelemetryFrame(CMD_TEST_PASS, p) :
        p \in { <<0, 1, 0, 0, 0, 42>>, <<1, 2, 1, 0, 2, 3>>,
                <<0, 102, 0, 0, 0, 103>> } }

FailFrames ==
    { TelemetryFrame(CMD_TEST_FAIL, p) : p \in { <<0, 2, 65, 66>>, <<0, 3>> } }

SuiteEndFrames ==
    { TelemetryFrame(CMD_TEST_SUITE_END, p) :
        p \in { <<0, 2, 0, 1, 0, 1>>, <<1, 0, 0, 9, 0, 0>>,
                <<0, 5, 0, 0, 2, 1, 7>> } }

OtherFrames ==
    { TelemetryFrame(CMD_TEST_SUITE_START, <<0, 2, 99>>),
      TelemetryFrame(CMD_TEST_START, <<0, 1, 116>>),
      TelemetryFrame(CMD_TEST_SKIP, <<0, 4, 110>>),
      TelemetryFrame(CMD_TEST_PASS, <<>>),
      TelemetryFrame(CMD_TEST_PASS, <<0, 7>>),
      TelemetryFrame(CMD_TEST_SUITE_END, <<0, 1>>) }

DecodeSegs ==
    { <<b>> : b \in NoiseBytes \cup CodeBytes }
      \cup PassFrames \cup FailFrames \cup SuiteEndFrames \cup OtherFrames

\* the concatenations of at most n segments of segs
RECURSIVE Concats(_, _)
Concats(segs, n) ==
    IF n = 0 THEN { <<>> }
    ELSE LET shorter == Concats(segs, n - 1)
         IN  shorter \cup { b \o s : b \in shorter, s \in segs }

Buffers == Concats(DecodeSegs, MaxSegs)

\* frames cut short: a code byte, a length, and fewer payload bytes than
\* the length says
TruncatedFrames == { <<CMD_TEST_FAIL, 0, 5, 1>>, <<CMD_TEST_PASS, 0, 6, 0, 1>> }

\* buffers that end in a frame cut short
TruncatedBuffers ==
    { b \o t : b \in Concats(DecodeSegs, MaxSegs - 1), t \in TruncatedFrames }

\* the payload lengths below which a frame of the code lacks a field: the
\* 2-byte number, the duration of TEST_PASS, the counts of TEST_SUITE_END
MinPayload(cmd) ==
    IF cmd \in {CMD_TEST_PASS, CMD_TEST_SUITE_END} THEN 6 ELSE 2

\* the bytes short payloads are cut from
ShortPayloadBytes == <<0, 7, 0, 0, 1, 44>>

\* one frame of every code with every payload shorter than MinPayload
ShortFrames ==
    { TelemetryFrame(cmd, Slice(ShortPayloadBytes, 0, n)) :
        cmd \in CMD_TEST_SUITE_START .. CMD_TEST_SUITE_END, n \in 0 .. 5 }
    \ { TelemetryFrame(cmd, Slice(ShortPayloadBytes, 0, n)) :
          cmd \in {CMD_TEST_SUITE_START, CMD_TEST_START, CMD_TEST_FAIL,
                   CMD_TEST_SKIP}, n \in 2 .. 5 }

\* what follows a short frame in the buffer: nothing, a byte, the Sentinel
Trailers == { <<>>, <<0>>, END_MARKER }

\* buffers that hold one short frame
ShortFrameBuffers == { f \o t : f \in ShortFrames, t \in Trailers }

\* the buffers parse_results is run on
DecodeInputs == Buffers \cup TruncatedBuffers \cup ShortFrameBuffers

\* ------------------------------------------------------------------------
\* PCBEmulator.parse_results
\* ------------------------------------------------------------------------
\* entry of parse_results: results = {...}; the raw data is written to the
\* output file, or open() raises; data = self.uart_data; offset = 0
ParseBegin ==
    /\ pc = "parse_results"
    /\ \/ /\ output' = [written |-> TRUE, bytes |-> uart_data]
          /\ results' = EmptyResults
          /\ offset' = 0
          /\ pc' = "parse_loop"
          /\ UNCHANGED raised
       \/ /\ raised' = TRUE
          /\ pc' = "finally"
          /\ UNCHANGED <<output, results, offset>>
    /\ UNCHANGED <<exit_code, uart_data, emuVars>>
    /\ UNCHANGED ctlVars
    /\ UNCHANGED <<codecVars, signalled>>

\* the 0-based indices of data one iteration of the loop reads at offset
\* off: the code, the two length bytes of a frame, the payload slice of a
\* frame that does not overrun; an index outside data raises IndexError
IndicesRead(data, off) ==
    IF off < 0 \/ off >= Len(data) THEN {off}
    ELSE IF NotACode(At(data, off)) THEN {off}
    ELSE IF off + 2 >= Len(data) THEN {off, off + 1, off + 2}
    ELSE IF FrameOverruns(data, off) THEN {off, off + 1, off + 2}
    ELSE off .. (off + 2 + FrameLength(data, off))

\* one iteration of the while loop (data aliases self.uart_data)
ParseStep ==
    /\ pc = "parse_loop"
    /\ ScanContinues(uart_data, offset)
    /\ LET s == ScanStep(uart_data, offset, results)
       IN  /\ offset' = s.offset
           /\ results' = s.results
           /\ pc' = IF s.stop THEN "parse_done" ELSE "parse_loop"
    /\ UNCHANGED <<exit_code, output, raised, uart_data, emuVars>>
    /\ UNCHANGED ctlVars
    /\ UNCHANGED <<codecVars, signalled>>

\* the while condition is false: return results
ParseExit ==
    /\ pc = "parse_loop"
    /\ ~ScanContinues(uart_data, offset)
    /\ pc' = "parse_done"
    /\ UNCHANGED <<exit_code, output, raised, decVars, emuVars>>
    /\ UNCHANGED ctlVars
    /\ UNCHANGED <<codecVars, signalled>>

\* the state in which parse_results is entered with one buffer of inputs
DecodeStart(inputs) ==
    /\ pc = "parse_results"
    /\ exit_code = -1
    /\ output = NoOutput
    /\ raised = FALSE
    /\ uart_data \in inputs
    /\ offset = 0
    /\ results = EmptyResults
    /\ test_complete = TRUE
    /\ success = TRUE
    /\ completed = TRUE
    /\ qemu = "running"
    /\ stream = <<>>
    /\ cap_pc = "done"
    /\ cap_data = <<>>
    /\ cleanups = 0
    /\ retval = -1
    /\ signals = 0
    /\ CtlUnused
    /\ CodecUnused

InitDecode == DecodeStart(DecodeInputs)

NextDecode == ParseBegin \/ ParseStep \/ ParseExit

SpecDecode == InitDecode /\ [][NextDecode]_vars

\* parse_results run by a thread that keeps running: the loop body has no
\* call that blocks
FairBuffers ==
    Concats(DecodeSegs, MaxSegs - 1) \cup TruncatedFrames
        \cup ShortFrameBuffers

SpecDecodeFair ==
    DecodeStart(FairBuffers) /\ [][NextDecode]_vars /\ WF_vars(NextDecode)

\* ------------------------------------------------------------------------
\* Inputs of the emulator specification
\* ------------------------------------------------------------------------
\* number of segments of the byte stream the emulated target writes
MaxStreamSegs == 2

\* the first n bytes of the end marker
MarkerPrefix(n) == SubSeq(END_MARKER, 1, n)

StreamSegs ==
    { END_MARKER, MarkerPrefix(7), MarkerPrefix(4), <<190>>, <<0>>, <<102>>,
      TelemetryFrame(CMD_TEST_PASS, <<0, 1, 0, 0, 0, 42>>),
      TelemetryFrame(CMD_TEST_FAIL, <<0, 2, 65>>),
      TelemetryFrame(CMD_TEST_SUITE_END, <<0, 2, 0, 1, 0, 1>>) }

Streams == Concats(StreamSegs, MaxStreamSegs)

\* number of result frames in a well-formed stream
MaxResults == 2

\* a 2-byte and a 4-byte big-endian number, as the decoder reads them
U16BE(n) == <<(n \div 256) % 256, n % 256>>
U32BE(n) ==
    <<(n \div 16777216) % 256, (n \div 65536) % 256, (n \div 256) % 256,
      n % 256>>

\* the UTF-8 bytes of a text of code points below 2048
RECURSIVE Utf8Encode(_)
Utf8Encode(t) ==
    IF t = <<>> THEN <<>>
    ELSE (IF Head(t) < 128 THEN <<Head(t)>>
          ELSE <<192 + (Head(t) \div 64), 128 + (Head(t) % 64)>>)
         \o Utf8Encode(Tail(t))

\* the texts "core" and "assert x==y"
TextCore == <<99, 111, 114, 101>>
TextAssert == <<97, 115, 115, 101, 114, 116, 32, 120, 61, 61, 121>>

\* what a well-formed stream announces: expected count and suite name
SuiteStarts ==
    { [expected |-> 2, name |-> TextCore],
      [expected |-> 258, name |-> <<233, 49>>] }

\* the test results a well-formed stream reports, as records of the report
TestResults ==
    { [num |-> 1, status |-> "pass", duration |-> 42],
      [num |-> 2, status |-> "fail", error |-> TextAssert],
      [num |-> 259, status |-> "skip", reason |-> <<110, 233>>] }

\* the counts a well-formed stream closes with
SuiteEnds ==
    { [total |-> 2, passed |-> 1, failed |-> 1],
      [total |-> 300, passed |-> 299, failed |-> 0] }

\* the frame that reports the test result r
ResultFrame(r) ==
    IF r.status = "pass"
    THEN TelemetryFrame(CMD_TEST_PASS, U16BE(r.num) \o U32BE(r.duration))
    ELSE IF r.status = "fail"
    THEN TelemetryFrame(CMD_TEST_FAIL, U16BE(r.num) \o Utf8Encode(r.error))
    ELSE TelemetryFrame(CMD_TEST_SKIP, U16BE(r.num) \o Utf8Encode(r.reason))

\* the frames of the test results rs, in order
RECURSIVE ResultFrames(_)
ResultFrames(rs) ==
    IF rs = <<>> THEN <<>> ELSE ResultFrame(Head(rs)) \o ResultFrames(Tail(rs))

\* SUITE_START, the result frames, SUITE_END, Sentinel
WellFormedStream(st, rs, en) ==
    TelemetryFrame(CMD_TEST_SUITE_START, U16BE(st.expected) \o Utf8Encode(st.name))
        \o ResultFrames(rs)
        \o TelemetryFrame(CMD_TEST_SUITE_END,
                          U16BE(en.total) \o U16BE(en.passed) \o U16BE(en.failed))
        \o END_MARKER

\* the sequences of at most MaxResults test results
ResultSeqs == UNION { [1 .. n -> TestResults] : n \in 0 .. MaxResults }

\* the well-formed streams with what they were built from
WellFormedCases ==
    { [start |-> st, tests |-> rs, end |-> en,
       bytes |-> WellFormedStream(st, rs, en)] :
        st \in SuiteStarts, rs \in ResultSeqs, en \in SuiteEnds }

WellFormedStreams == { w.bytes : w \in WellFormedCases }

\* the byte streams the emulated target writes
EmuStreams == Streams \cup WellFormedStreams

\* ------------------------------------------------------------------------
\* PCBEmulator.capture_uart (the capture thread)
\* ------------------------------------------------------------------------
\* while not self.test_complete.is_set(): data = stdout.read(1);
\* if not data: break.  read(1) blocks while the pipe is empty and the child
\* lives; once the child is gone it returns what the pipe still holds, or
\* nothing at all.
\* the capture loop's read with an end of stream taken for completion
CaptureRead_EofCompletes ==
    /\ cap_pc = "loop"
    /\ pc # "exit"
    /\ IF test_complete
       THEN /\ cap_pc' = "done"
            /\ UNCHANGED <<cap_data, stream, test_complete>>
       ELSE \/ /\ stream # <<>>
               /\ cap_data' = <<Head(stream)>>
               /\ stream' = Tail(stream)
               /\ cap_pc' = "got"
               /\ UNCHANGED test_complete
            \/ /\ qemu # "running"
               /\ cap_data' = <<>>
               /\ stream' = <<>>
               /\ cap_pc' = "done"
               /\ test_complete' = TRUE
    /\ UNCHANGED <<pc, exit_code, output, raised, decVars,
                   success, completed, qemu, cleanups, retval, signals>>
    /\ UNCHANGED ctlVars
    /\ UNCHANGED <<codecVars, signalled>>

CaptureRead ==
    /\ cap_pc = "loop"
    /\ pc # "exit"
    /\ IF test_complete
       THEN /\ cap_pc' = "done"
            /\ UNCHANGED <<cap_data, stream>>
       ELSE \/ /\ stream # <<>>
               /\ cap_data' = <<Head(stream)>>
               /\ stream' = Tail(stream)
               /\ cap_pc' = "got"
            \/ /\ qemu # "running"
               /\ cap_data' = <<>>
               /\ stream' = <<>>
               /\ cap_pc' = "done"
    /\ UNCHANGED <<pc, exit_code, output, raised, decVars, test_complete,
                   success, completed, qemu, cleanups, retval, signals>>
    /\ UNCHANGED ctlVars
    /\ UNCHANGED <<codecVars, signalled>>

\* self.uart_data.extend(data); if self.uart_data.endswith(END_MARKER):
\* self.test_complete.set(); break
CaptureAppend ==
    /\ cap_pc = "got"
    /\ pc # "exit"
    /\ uart_data' = uart_data \o cap_data
    /\ IF EndsWith(uart_data', END_MARKER)
       THEN /\ test_complete' = TRUE
            /\ signals' = signals + 1
            /\ cap_pc' = "done"
       ELSE /\ cap_pc' = "loop"
            /\ UNCHANGED <<test_complete, signals>>
    /\ UNCHANGED <<pc, exit_code, output, raised, offset, results, success,
                   completed, qemu, stream, cap_data, cleanups, retval>>
    /\ UNCHANGED ctlVars
    /\ UNCHANGED <<codecVars, signalled>>

\* the emulated target ends by itself once it has written all its output
QemuExits ==
    /\ qemu = "running"
    /\ stream = <<>>
    /\ pc # "exit"
    /\ qemu' = "exited"
    /\ UNCHANGED <<pc, exit_code, output, raised, decVars, test_complete,
                   success, completed, stream, cap_pc, cap_data, cleanups,
                   retval, signals>>
    /\ UNCHANGED ctlVars
    /\ UNCHANGED <<codecVars, signalled>>

\* ------------------------------------------------------------------------
\* PCBEmulator.run (the main thread)
\* ------------------------------------------------------------------------
\* if not self.validate_inputs(): return 1
ValidateInputs ==
    /\ pc = "validate_inputs"
    /\ \/ /\ pc' = "start_qemu"
          /\ UNCHANGED exit_code
       \/ /\ pc' = "exit"
          /\ exit_code' = 1
    /\ UNCHANGED <<output, raised, decVars, emuVars>>
    /\ UNCHANGED ctlVars
    /\ UNCHANGED <<codecVars, signalled>>

\* if not self.start_qemu(): return 1. subprocess.Popen has started the
\* child ("spawned") before its value is stored in self.qemu_process
StartQemu ==
    /\ pc = "start_qemu"
    /\ \/ /\ qemu' = "spawned"
          /\ pc' = "start_qemu_assign"
          /\ UNCHANGED exit_code
       \/ /\ pc' = "exit"
          /\ exit_code' = 1
          /\ UNCHANGED qemu
    /\ UNCHANGED <<output, raised, decVars, test_complete, success,
                   completed, stream, cap_pc, cap_data, cleanups, retval,
                   signals>>
    /\ UNCHANGED ctlVars
    /\ UNCHANGED <<codecVars, signalled>>

\* start_qemu: self.qemu_process = <the Popen object>; return True
StartQemuAssign ==
    /\ pc = "start_qemu_assign"
    /\ qemu' = "running"
    /\ pc' = "wait_for_completion"
    /\ UNCHANGED <<exit_code, output, raised, decVars, test_complete, success,
                   completed, stream, cap_pc, cap_data, cleanups, retval,
                   signals>>
    /\ UNCHANGED ctlVars
    /\ UNCHANGED <<codecVars, signalled>>

\* wait_for_completion: the capture thread is started
WaitStart ==
    /\ pc = "wait_for_completion"
    /\ cap_pc' = "loop"
    /\ pc' = "waiting"
    /\ UNCHANGED <<exit_code, output, raised, decVars, test_complete,
                   success, completed, qemu, stream, cap_data, cleanups,
                   retval, signals>>
    /\ UNCHANGED ctlVars
    /\ UNCHANGED <<codecVars, signalled>>

\* the wait reporting completion whether or not the event was set
WaitSignalled_Unconditional ==
    /\ pc = "waiting"
    /\ completed' = TRUE
    /\ success' = TRUE
    /\ pc' = "parse_results"
    /\ UNCHANGED <<exit_code, output, raised, decVars, test_complete, qemu,
                   stream, cap_pc, cap_data, cleanups, retval, signals>>
    /\ UNCHANGED ctlVars
    /\ UNCHANGED <<codecVars, signalled>>

\* completed = self.test_complete.wait(timeout): the flag is set
WaitSignalled ==
    /\ pc = "waiting"
    /\ test_complete
    /\ completed' = TRUE
    /\ success' = TRUE
    /\ pc' = "parse_results"
    /\ UNCHANGED <<exit_code, output, raised, decVars, test_complete, qemu,
                   stream, cap_pc, cap_data, cleanups, retval, signals>>
    /\ UNCHANGED ctlVars
    /\ UNCHANGED <<codecVars, signalled>>

\* WaitTimeout with a wait that reports completion when the timeout elapses
WaitTimeout_ReportsCompleted ==
    /\ pc = "waiting"
    /\ ~test_complete
    /\ completed' = TRUE
    /\ success' = TRUE
    /\ pc' = "parse_results"
    /\ UNCHANGED <<exit_code, output, raised, decVars, test_complete, qemu,
                   stream, cap_pc, cap_data, cleanups, retval, signals>>
    /\ UNCHANGED ctlVars
    /\ UNCHANGED <<codecVars, signalled>>

\* completed = self.test_complete.wait(timeout): the timeout elapses first
WaitTimeout ==
    /\ pc = "waiting"
    /\ ~test_complete
    /\ completed' = FALSE
    /\ success' = FALSE
    /\ pc' = "timed_out"
    /\ UNCHANGED <<exit_code, output, raised, decVars, test_complete, qemu,
                   stream, cap_pc, cap_data, cleanups, retval, signals>>
    /\ UNCHANGED ctlVars
    /\ UNCHANGED <<codecVars, signalled>>

\* PCBEmulator.cleanup: terminate (or kill) the child that
\* self.qemu_process holds, if it holds one
CleanupQemu(q) == IF q \in {"none", "spawned"} THEN q ELSE "stopped"

\* if not self.wait_for_completion(): self.cleanup(); return 1
TimeoutCleanup ==
    /\ pc = "timed_out"
    /\ qemu' = CleanupQemu(qemu)
    /\ cleanups' = cleanups + 1
    /\ retval' = 1
    /\ pc' = "finally"
    /\ UNCHANGED <<exit_code, output, raised, decVars, test_complete,
                   success, completed, stream, cap_pc, cap_data, signals>>
    /\ UNCHANGED ctlVars
    /\ UNCHANGED <<codecVars, signalled>>

\* if results["failed"] > 0: return 1; return 0
ExitStatus(res) == IF res.failed > 0 THEN 1 ELSE 0

Report ==
    /\ pc = "parse_done"
    /\ retval' = ExitStatus(results)
    /\ pc' = "finally"
    /\ UNCHANGED <<exit_code, output, raised, decVars, test_complete,
                   success, completed, qemu, stream, cap_pc, cap_data,
                   cleanups, signals>>
    /\ UNCHANGED ctlVars
    /\ UNCHANGED <<codecVars, signalled>>

\* run's finally block without its call of cleanup
Finally_NoCleanup ==
    /\ pc = "finally"
    /\ exit_code' = IF raised THEN 1 ELSE retval
    /\ pc' = "exit"
    /\ UNCHANGED <<output, raised, decVars, test_complete, success, qemu,
                   cleanups, completed, stream, cap_pc, cap_data, retval,
                   signals>>
    /\ UNCHANGED ctlVars
    /\ UNCHANGED <<codecVars, signalled>>

\* finally: self.cleanup(); then sys.exit(emulator.run()), or the exception
\* leaves main() and the interpreter exits with status 1
Finally ==
    /\ pc = "finally"
    /\ qemu' = CleanupQemu(qemu)
    /\ cleanups' = cleanups + 1
    /\ exit_code' = IF raised THEN 1 ELSE retval
    /\ pc' = "exit"
    /\ UNCHANGED <<output, raised, decVars, test_complete, success,
                   completed, stream, cap_pc, cap_data, retval, signals>>
    /\ UNCHANGED ctlVars
    /\ UNCHANGED <<codecVars, signalled>>

\* the statements of run that stand inside its try block
InTry == pc \notin {"validate_inputs", "start_qemu", "start_qemu_assign"}

\* main.signal_handler on SIGTERM or SIGINT, run by the main thread between
\* two of its steps: emulator.cleanup(), then sys.exit(1); the SystemExit
\* passes through run's finally (a second cleanup) when run is in its try
SignalHandler ==
    /\ pc # "exit"
    /\ signalled' = TRUE
    /\ qemu' = CleanupQemu(qemu)
    /\ cleanups' = IF InTry THEN cleanups + 2 ELSE cleanups + 1
    /\ pc' = "exit"
    /\ exit_code' = 1
    /\ UNCHANGED <<output, raised, decVars, test_complete, success,
                   completed, stream, cap_pc, cap_data, retval, signals>>
    /\ UNCHANGED ctlVars
    /\ UNCHANGED codecVars

InitEmu ==
    /\ pc = "validate_inputs"
    /\ exit_code = -1
    /\ output = NoOutput
    /\ raised = FALSE
    /\ uart_data = <<>>
    /\ offset = 0
    /\ results = EmptyResults
    /\ test_complete = FALSE
    /\ success = FALSE
    /\ completed = FALSE
    /\ qemu = "none"
    /\ stream \in EmuStreams
    /\ cap_pc = "idle"
    /\ cap_data = <<>>
    /\ cleanups = 0
    /\ retval = -1
    /\ signals = 0
    /\ CtlUnused
    /\ CodecUnused

NextEmu ==
    \/ ValidateInputs \/ StartQemu \/ StartQemuAssign \/ WaitStart
    \/ WaitSignalled \/ SignalHandler
    \/ WaitTimeout \/ TimeoutCleanup
    \/ ParseBegin \/ ParseStep \/ ParseExit \/ Report \/ Finally
    \/ CaptureRead \/ CaptureAppend \/ QemuExits

SpecEmu == InitEmu /\ [][NextEmu]_vars

\* the steps of the main thread that need nothing from outside: its own
\* statements, and Event.wait(timeout) returning
EmuMainStep ==
    \/ ValidateInputs \/ StartQemu \/ StartQemuAssign \/ WaitStart
    \/ WaitSignalled \/ WaitTimeout \/ TimeoutCleanup
    \/ ParseBegin \/ ParseStep \/ ParseExit \/ Report \/ Finally

\* the emulation session with both threads scheduled: the main thread and
\* the capture thread each run while they can; nothing obliges the target
\* to exit or a signal to arrive
SpecEmuFair ==
    /\ InitEmu
    /\ [][NextEmu]_vars
    /\ WF_vars(EmuMainStep)
    /\ WF_vars(CaptureRead \/ CaptureAppend)

\* ------------------------------------------------------------------------
\* rpi-test-controller.py: protocol constants
\* ------------------------------------------------------------------------
CMD_PING == 1
CMD_UPLOAD == 2
CMD_RUN == 3
CMD_STATUS == 4
CMD_GET_LOG == 5

RSP_OK == 16
RSP_ERROR == 17
RSP_BUSY == 18
RSP_DATA == 19
RSP_STATUS == 20

STATUS_IDLE == 0
STATUS_UPLOADING == 1
STATUS_FLASHING == 2
STATUS_BOOTING == 3
STATUS_RUNNING == 4
STATUS_COMPLETED == 5
STATUS_ERROR == 255

\* chunk_size = 64 * 1024
CHUNK_SIZE == 65536

\* STATUS_NAMES.get(status_code, 'unknown')
StatusName(code) ==
    IF code = STATUS_IDLE THEN "idle"
    ELSE IF code = STATUS_UPLOADING THEN "uploading"
    ELSE IF code = STATUS_FLASHING THEN "flashing"
    ELSE IF code = STATUS_BOOTING THEN "booting"
    ELSE IF code = STATUS_RUNNING THEN "running"
    ELSE IF code = STATUS_COMPLETED THEN "completed"
    ELSE IF code = STATUS_ERROR THEN "error"
    ELSE "unknown"

\* ------------------------------------------------------------------------
\* Bounds and inputs of the controller specification
\* ------------------------------------------------------------------------
\* largest number of chunks an uploaded image has
MaxChunks == 2

\* largest --timeout, in seconds
MaxTimeout == 2

\* longest time one poll of the status takes, sleep(1) included
MaxPollSeconds == 2

ImageSizes ==
    { k * CHUNK_SIZE + r : k \in 0 .. MaxChunks - 1, r \in {0, 1, CHUNK_SIZE} }

\* logs the board may hold (bytes below 128 only)
TargetLogs ==
    { <<>>,
      TelemetryFrame(CMD_TEST_PASS, <<0, 1, 0, 0, 0, 42>>),
      TelemetryFrame(CMD_TEST_FAIL, <<0, 2, 65>>),
      TelemetryFrame(CMD_TEST_PASS, <<0, 1, 0, 0, 0, 42>>)
        \o TelemetryFrame(CMD_TEST_SUITE_END, <<0, 2, 0, 1, 0, 1>>) }

\* the state field of the board's /status answer, or 'unknown'
HttpStates == {"completed", "error", "running", "unknown"}

\* struct.pack('<I', n)
Pack32LE(n) ==
    <<n % 256, (n \div 256) % 256, (n \div 65536) % 256,
      (n \div 16777216) % 256>>

\* struct.unpack('<I', b)[0]
Unpack32LE(b) == b[1] + b[2] * 256 + b[3] * 65536 + b[4] * 16777216

\* packet = bytes([cmd]) + struct.pack('<I', len(data)) + data
Packet(cmd, data) == <<cmd>> \o Pack32LE(Len(data)) \o data

\* what the board may send back after a command: nothing, a frame, a frame
\* cut after its code byte, a frame followed by a stray byte
Replies ==
    { <<>>,
      Packet(RSP_OK, <<>>),
      Packet(RSP_ERROR, <<>>),
      <<RSP_OK>>,
      Packet(RSP_OK, <<>>) \o <<RSP_OK>>,
      Packet(RSP_STATUS, <<STATUS_COMPLETED>>),
      Packet(RSP_STATUS, <<STATUS_ERROR>>),
      Packet(RSP_STATUS, <<STATUS_RUNNING>>),
      Packet(RSP_STATUS, <<9>>),
      Packet(RSP_STATUS, <<>>) }

\* what the board may send back after a chunk
AckReplies == { <<>>, <<RSP_OK>>, <<RSP_ERROR>>, <<RSP_BUSY>> }

\* ------------------------------------------------------------------------
\* SerialController
\* ------------------------------------------------------------------------
\* send_command's reads with the payload taken one byte too early
SendCommandResult_OffByOne(buf) ==
    IF buf = <<>>
    THEN [code |-> RSP_ERROR, data |-> <<>>, rest |-> <<>>]
    ELSE IF Len(Slice(buf, 1, 5)) < 4
    THEN [code |-> buf[1], data |-> <<>>, rest |-> <<>>]
    ELSE LET data_len == Unpack32LE(Slice(buf, 1, 5))
         IN  [code |-> buf[1],
              data |-> IF data_len > 0 THEN Slice(buf, 4, 4 + data_len)
                       ELSE <<>>,
              rest |-> IF data_len > 0 THEN SliceFrom(buf, 5 + data_len)
                       ELSE SliceFrom(buf, 5)]

\* the reads of send_command over the bytes buf that arrive before the read
\* timeout: rsp = read(1); len_bytes = read(4); rsp_data = read(data_len)
SendCommandResult(buf) ==
    IF buf = <<>>
    THEN [code |-> RSP_ERROR, data |-> <<>>, rest |-> <<>>]
    ELSE IF Len(Slice(buf, 1, 5)) < 4
    THEN [code |-> buf[1], data |-> <<>>, rest |-> <<>>]
    ELSE LET data_len == Unpack32LE(Slice(buf, 1, 5))
         IN  [code |-> buf[1],
              data |-> IF data_len > 0 THEN Slice(buf, 5, 5 + data_len)
                       ELSE <<>>,
              rest |-> IF data_len > 0 THEN SliceFrom(buf, 5 + data_len)
                       ELSE SliceFrom(buf, 5)]

\* the entry of wire for a command frame
FrameWritten(cmd, data) == [kind |-> "frame", bytes |-> Packet(cmd, data)]

\* TotalChunks rounding down
TotalChunks_Floor(size) == size \div CHUNK_SIZE

\* total_chunks = (len(data) + chunk_size - 1) // chunk_size
TotalChunks(size) == (size + CHUNK_SIZE - 1) \div CHUNK_SIZE

\* chunk = data[i * chunk_size:(i + 1) * chunk_size], as the slice bounds
ChunkWritten(size, i) ==
    [kind |-> "chunk",
     lo |-> IF i * CHUNK_SIZE > size THEN size ELSE i * CHUNK_SIZE,
     hi |-> IF (i + 1) * CHUNK_SIZE > size THEN size ELSE (i + 1) * CHUNK_SIZE]

\* ChunkNumber printing the 0-based loop index
ChunkNumber_ZeroBased(i) == i

\* the chunk number of print(f"[Serial] Chunk {i+1}/{total_chunks} failed")
ChunkNumber(i) == i + 1

\* get_status: rsp == RSP_STATUS and len(data) >= 1
SerialStatus(r) ==
    IF r.code = RSP_STATUS /\ Len(r.data) >= 1
    THEN StatusName(r.data[1])
    ELSE "unknown"

\* ------------------------------------------------------------------------
\* main() of rpi-test-controller.py
\* ------------------------------------------------------------------------
\* FatalExit with no sys.exit(1) after a failed ping
FatalExit_PingContinues(op, exc) ==
    /\ failed_op' = op
    /\ raised' = exc
    /\ IF op = "ping"
       THEN /\ pc' = "upload_iso"
            /\ UNCHANGED exit_code
       ELSE /\ pc' = "exit"
            /\ exit_code' = 1

\* sys.exit(1) after the operation op returned False, or the interpreter
\* ends with status 1 on the exception op raised
FatalExit(op, exc) ==
    /\ failed_op' = op
    /\ raised' = exc
    /\ exit_code' = 1
    /\ pc' = "exit"

\* argument validation: --endpoint / --port given, the ISO exists
ValidateArgs ==
    /\ pc = "validate_args"
    /\ \/ /\ pc' = "ping"
          /\ UNCHANGED exit_code
       \/ /\ pc' = "exit"
          /\ exit_code' = 1
    /\ UNCHANGED <<output, raised, decVars, emuVars, ctlVars>>
    /\ UNCHANGED <<codecVars, signalled>>

\* if not controller.ping(): sys.exit(1)
Ping ==
    /\ pc = "ping"
    /\ ops' = Append(ops, "ping")
    /\ IF mode = "http"
       THEN /\ \/ /\ pc' = "upload_iso"
                  /\ UNCHANGED <<failed_op, raised, exit_code>>
               \/ FatalExit("ping", FALSE)
            /\ UNCHANGED <<ser, rx, wire, rsps>>
       ELSE \/ /\ FatalExit("ping", FALSE)
               /\ UNCHANGED <<ser, rx, wire, rsps>>
            \/ \E reply \in Replies :
                 LET r == SendCommandResult(rx \o reply)
                 IN  /\ ser' = "open"
                     /\ wire' = Append(wire, FrameWritten(CMD_PING, <<>>))
                     /\ rx' = r.rest
                     /\ rsps' = Append(rsps, r.code)
                     /\ IF r.code = RSP_OK
                        THEN /\ pc' = "upload_iso"
                             /\ UNCHANGED <<failed_op, raised, exit_code>>
                        ELSE FatalExit("ping", FALSE)
    /\ UNCHANGED <<output, decVars, emuVars, mode, iso_size, chunk_i, acks,
                   failed_chunk, elapsed, timeout, wait_end, wait_success,
                   uart_log, target_log>>
    /\ UNCHANGED <<codecVars, signalled>>

\* if not controller.upload_iso(args.iso): sys.exit(1) -- up to the answer
\* to the upload request
UploadStart ==
    /\ pc = "upload_iso"
    /\ ops' = Append(ops, "upload_iso")
    /\ IF mode = "http"
       THEN /\ \/ /\ pc' = "run_test"
                  /\ UNCHANGED <<failed_op, raised, exit_code>>
               \/ FatalExit("upload_iso", FALSE)
               \/ FatalExit("upload_iso", TRUE)
            /\ UNCHANGED <<rx, wire, rsps>>
       ELSE \E reply \in Replies :
              LET r == SendCommandResult(rx \o reply)
              IN  /\ wire' = Append(wire, FrameWritten(CMD_UPLOAD,
                                                       Pack32LE(iso_size)))
                  /\ rx' = r.rest
                  /\ rsps' = Append(rsps, r.code)
                  /\ IF r.code # RSP_OK
                     THEN FatalExit("upload_iso", FALSE)
                     ELSE /\ pc' = IF TotalChunks(iso_size) > 0
                                   THEN "upload_chunk" ELSE "run_test"
                          /\ UNCHANGED <<failed_op, raised, exit_code>>
    /\ chunk_i' = 0
    /\ UNCHANGED <<output, decVars, emuVars, mode, ser, iso_size, acks,
                   failed_chunk, elapsed, timeout, wait_end, wait_success,
                   uart_log, target_log>>
    /\ UNCHANGED <<codecVars, signalled>>

\* one iteration of the chunk loop of SerialController.upload_iso
UploadChunk ==
    /\ pc = "upload_chunk"
    /\ \E ack \in AckReplies :
         LET buf == rx \o ack
             got == Slice(buf, 0, 1)
         IN  /\ wire' = Append(wire, ChunkWritten(iso_size, chunk_i))
             /\ rx' = SliceFrom(buf, 1)
             /\ acks' = Append(acks, got)
             /\ IF got = <<>> \/ got[1] # RSP_OK
                THEN /\ failed_chunk' = ChunkNumber(chunk_i)
                     /\ FatalExit("upload_iso", FALSE)
                     /\ UNCHANGED chunk_i
                ELSE /\ chunk_i' = chunk_i + 1
                     /\ pc' = IF chunk_i + 1 < TotalChunks(iso_size)
                              THEN "upload_chunk" ELSE "run_test"
                     /\ UNCHANGED <<failed_chunk, failed_op, raised,
                                    exit_code>>
    /\ UNCHANGED <<output, decVars, emuVars, mode, ser, iso_size, ops,
                   elapsed, timeout, wait_end, wait_success, uart_log,
                   target_log, rsps>>
    /\ UNCHANGED <<codecVars, signalled>>

\* if not controller.run_test(): sys.exit(1)
RunTest ==
    /\ pc = "run_test"
    /\ ops' = Append(ops, "run_test")
    /\ IF mode = "http"
       THEN /\ \/ /\ pc' = "wait_for_completion"
                  /\ UNCHANGED <<failed_op, raised, exit_code>>
               \/ FatalExit("run_test", FALSE)
               \/ FatalExit("run_test", TRUE)
            /\ UNCHANGED <<rx, wire, rsps>>
       ELSE \E reply \in Replies :
              LET r == SendCommandResult(rx \o reply)
              IN  /\ wire' = Append(wire, FrameWritten(CMD_RUN, <<>>))
                  /\ rx' = r.rest
                  /\ rsps' = Append(rsps, r.code)
                  /\ IF r.code = RSP_OK
                     THEN /\ pc' = "wait_for_completion"
                          /\ UNCHANGED <<failed_op, raised, exit_code>>
                     ELSE FatalExit("run_test", FALSE)
    /\ UNCHANGED <<output, decVars, emuVars, mode, ser, iso_size, chunk_i,
                   acks, failed_chunk, elapsed, timeout, wait_end,
                   wait_success, uart_log, target_log>>
    /\ UNCHANGED <<codecVars, signalled>>

\* success, uart_log = controller.wait_for_completion(): start_time is taken
WaitBegin ==
    /\ pc = "wait_for_completion"
    /\ ops' = Append(ops, "wait_for_completion")
    /\ elapsed' = 0
    /\ pc' = "wait_loop"
    /\ UNCHANGED <<exit_code, output, raised, decVars, emuVars, mode, ser,
                   rx, wire, iso_size, chunk_i, acks, failed_chunk,
                   failed_op, timeout, wait_end, wait_success, uart_log,
                   target_log, rsps>>
    /\ UNCHANGED <<codecVars, signalled>>

\* the first component of what wait_for_completion returns
ReturnedSuccess(how) == how = "completed"

\* HttpController: return <success>, self.get_uart_log()
HttpReturn(how) ==
    /\ wait_end' = how
    /\ wait_success' = ReturnedSuccess(how)
    /\ uart_log' \in {target_log, <<>>}
    /\ pc' = "save_log"
    /\ UNCHANGED <<ser, failed_op, raised, exit_code>>

\* SerialController: self.close(); return <success>, self.get_uart_log().
\* send_command writes to the closed port, pyserial raises PortNotOpenError
\* and the exception leaves main()
SerialReturn(how) ==
    /\ wait_end' = how
    /\ ser' = "closed"
    /\ FatalExit("wait_for_completion", TRUE)
    /\ UNCHANGED <<wait_success, uart_log>>

\* one iteration of the polling loop: get_status, then return or sleep(1)
Poll ==
    /\ pc = "wait_loop"
    /\ elapsed < timeout
    /\ IF mode = "http"
       THEN /\ \E st \in HttpStates :
                 IF st \in {"completed", "error"}
                 THEN /\ HttpReturn(st)
                      /\ UNCHANGED elapsed
                 ELSE /\ \E d \in 1 .. MaxPollSeconds : elapsed' = elapsed + d
                      /\ UNCHANGED <<pc, wait_end, wait_success, uart_log,
                                     ser, failed_op, raised, exit_code>>
            /\ UNCHANGED <<rx, wire, rsps>>
       ELSE \E reply \in Replies :
              LET r == SendCommandResult(rx \o reply)
              IN  /\ wire' = Append(wire, FrameWritten(CMD_STATUS, <<>>))
                  /\ rx' = r.rest
                  /\ rsps' = Append(rsps, r.code)
                  /\ IF SerialStatus(r) \in {"completed", "error"}
                     THEN /\ SerialReturn(SerialStatus(r))
                          /\ UNCHANGED elapsed
                     ELSE /\ \E d \in 1 .. MaxPollSeconds :
                                elapsed' = elapsed + d
                          /\ UNCHANGED <<pc, wait_end, wait_success,
                                         uart_log, ser, failed_op, raised,
                                         exit_code>>
    /\ UNCHANGED <<output, decVars, emuVars, mode, iso_size, chunk_i, acks,
                   failed_chunk, ops, timeout, target_log>>
    /\ UNCHANGED <<codecVars, signalled>>

\* the while condition is false: "Timeout waiting for completion"
WaitExpired ==
    /\ pc = "wait_loop"
    /\ elapsed >= timeout
    /\ IF mode = "http" THEN HttpReturn("timeout") ELSE SerialReturn("timeout")
    /\ UNCHANGED <<output, decVars, emuVars, mode, rx, wire, rsps,
                   iso_size, chunk_i, acks, failed_chunk, ops, elapsed,
                   timeout, target_log>>
    /\ UNCHANGED <<codecVars, signalled>>

\* sys.exit(0 if success else 1)
ControllerExitStatus(ok) == IF ok THEN 0 ELSE 1

\* the UART log is saved, or open() raises; then sys.exit
SaveLog ==
    /\ pc = "save_log"
    /\ \/ /\ output' = [written |-> TRUE, bytes |-> uart_log]
          /\ exit_code' = ControllerExitStatus(wait_success)
          /\ UNCHANGED raised
       \/ /\ raised' = TRUE
          /\ exit_code' = 1
          /\ UNCHANGED output
    /\ pc' = "exit"
    /\ UNCHANGED <<decVars, emuVars, ctlVars>>
    /\ UNCHANGED <<codecVars, signalled>>

Init ==
    /\ pc = "validate_args"
    /\ exit_code = -1
    /\ output = NoOutput
    /\ raised = FALSE
    /\ uart_data = <<>>
    /\ offset = 0
    /\ results = EmptyResults
    /\ test_complete = FALSE
    /\ success = FALSE
    /\ completed = FALSE
    /\ qemu = "none"
    /\ stream = <<>>
    /\ cap_pc = "idle"
    /\ cap_data = <<>>
    /\ cleanups = 0
    /\ retval = -1
    /\ signals = 0
    /\ mode \in {"http", "serial"}
    /\ ser = "none"
    /\ rx = <<>>
    /\ wire = <<>>
    /\ iso_size \in ImageSizes
    /\ chunk_i = 0
    /\ acks = <<>>
    /\ failed_chunk = 0
    /\ ops = <<>>
    /\ failed_op = "none"
    /\ elapsed = 0
    /\ timeout \in 0 .. MaxTimeout
    /\ wait_end = "none"
    /\ wait_success = FALSE
    /\ uart_log = <<>>
    /\ target_log \in TargetLogs
    /\ rsps = <<>>
    /\ CodecUnused

Next ==
    \/ ValidateArgs \/ Ping \/ UploadStart \/ UploadChunk \/ RunTest
    \/ WaitBegin \/ Poll \/ WaitExpired \/ SaveLog

Spec == Init /\ [][Next]_vars

\* the controller script with a scheduler that keeps running it: main() is
\* one thread whose calls all return or raise (the HTTP requests and the
\* serial reads carry a timeout, sleep(1) ends)
SpecFair == Init /\ [][Next]_vars /\ WF_vars(Next)

(***************************************************************************)
(* SerialController.send_command on its own: the packet it writes is       *)
(* looped back, whole or cut short, and its reads decode what arrives.     *)
(***************************************************************************)
\* the longest payload handed to send_command
MaxPayload == 2

\* the command codes handed to send_command
CodecCodes == {0, CMD_PING, RSP_OK, RSP_ERROR, 255}

\* the payloads handed to send_command
CodecPayloads ==
    UNION { [1 .. n -> {0, 255}] : n \in 0 .. MaxPayload }

\* send_command, lines 188-193: the early return without a port, else the
\* packet is written; the loop-back delivers its first echo_len bytes
SendCommandWrite ==
    /\ pc = "send_command"
    /\ IF ser # "open"
       THEN /\ rsp' = [code |-> RSP_ERROR, data |-> <<>>]
            /\ pc' = "send_command_done"
            /\ UNCHANGED <<wire, rx>>
       ELSE /\ wire' = Append(wire, FrameWritten(cmd_in.code, cmd_in.data))
            /\ rx' = Slice(Packet(cmd_in.code, cmd_in.data), 0, echo_len)
            /\ pc' = "send_command_read"
            /\ rsp' = rsp
    /\ UNCHANGED <<exit_code, output, raised, decVars, emuVars, mode, ser,
                   iso_size, chunk_i, acks, failed_chunk, ops, failed_op,
                   elapsed, timeout, wait_end, wait_success, uart_log,
                   target_log, rsps, cmd_in, echo_len, signalled>>

\* send_command, lines 195-208: the three reads and the tuple returned
SendCommandRead ==
    /\ pc = "send_command_read"
    /\ LET r == SendCommandResult(rx)
       IN  /\ rsp' = [code |-> r.code, data |-> r.data]
           /\ rx' = r.rest
    /\ pc' = "send_command_done"
    /\ UNCHANGED <<exit_code, output, raised, decVars, emuVars, mode, ser,
                   wire, iso_size, chunk_i, acks, failed_chunk, ops,
                   failed_op, elapsed, timeout, wait_end, wait_success,
                   uart_log, target_log, rsps, cmd_in, echo_len, signalled>>

InitCodec ==
    /\ pc = "send_command"
    /\ exit_code = -1
    /\ output = NoOutput
    /\ raised = FALSE
    /\ uart_data = <<>>
    /\ offset = 0
    /\ results = EmptyResults
    /\ test_complete = FALSE
    /\ success = FALSE
    /\ completed = FALSE
    /\ qemu = "none"
    /\ stream = <<>>
    /\ cap_pc = "idle"
    /\ cap_data = <<>>
    /\ cleanups = 0
    /\ retval = -1
    /\ signals = 0
    /\ mode = "serial"
    /\ ser \in {"open", "none"}
    /\ rx = <<>>
    /\ wire = <<>>
    /\ iso_size = 0
    /\ chunk_i = 0
    /\ acks = <<>>
    /\ failed_chunk = 0
    /\ ops = <<>>
    /\ failed_op = "none"
    /\ elapsed = 0
    /\ timeout = 0
    /\ wait_end = "none"
    /\ wait_success = FALSE
    /\ uart_log = <<>>
    /\ target_log = <<>>
    /\ rsps = <<>>
    /\ \E c \in CodecCodes, d \in CodecPayloads :
           cmd_in = [code |-> c, data |-> d]
    /\ echo_len \in 0 .. (5 + Len(cmd_in.data))
    /\ rsp = NoRsp
    /\ signalled = FALSE

NextCodec == SendCommandWrite \/ SendCommandRead

SpecCodec == InitCodec /\ [][NextCodec]_vars

\* ========================================================================
\* Properties of the telemetry decoder (SpecDecode)
\* ========================================================================
\* data is noise bytes, each taken from allowed, followed by one TEST_PASS
\* frame with a 6-byte payload and nothing else
NoiseThenPass(data, allowed) ==
    /\ Len(data) >= 9
    /\ At(data, Len(data) - 9) = CMD_TEST_PASS
    /\ At(data, Len(data) - 8) = 0
    /\ At(data, Len(data) - 7) = 6
    /\ \A k \in 0 .. Len(data) - 10 : At(data, k) \in allowed

\* the record the trailing 9-byte TEST_PASS frame of data encodes
TrailingPassRecord(data) ==
    LET n == Len(data)
    IN  [num |-> At(data, n - 6) * 256 + At(data, n - 5),
         status |-> "pass",
         duration |-> At(data, n - 4) * 16777216 + At(data, n - 3) * 65536
                      + At(data, n - 2) * 256 + At(data, n - 1)]

\* exactly one pass record, the one of the trailing frame, was recovered
OnePassRecovered ==
    /\ results.passed = 1
    /\ results.tests = <<TrailingPassRecord(uart_data)>>

\* C1 (as stated): after any noise bytes 0..255, values 100..105 included,
\* followed by one valid TEST_PASS frame, parse_results recovers exactly that
\* one pass record and passed = 1.
C1_ResyncAnyNoise ==
    (pc = "parse_done" /\ NoiseThenPass(uart_data, 0 .. 255))
        => OnePassRecovered

\* C1 (amended): after any noise bytes none of which is a telemetry code
\* (each below 100 or above 105), followed by one valid TEST_PASS frame,
\* parse_results recovers exactly that one pass record and passed = 1.
C1_ResyncNonCodeNoise ==
    (pc = "parse_done"
       /\ NoiseThenPass(uart_data, (0 .. 255) \ (100 .. 105)))
        => OnePassRecovered

C1_Witness ==
    /\ pc = "parse_done"
    /\ NoiseThenPass(uart_data, (0 .. 255) \ (100 .. 105))
    /\ Len(uart_data) >= 11
    /\ OnePassRecovered
    /\ results.tests[1].num = 258

\* the buffers made of TEST_PASS/TEST_FAIL frames only
ResultFrameRuns == Concats(PassFrames \cup FailFrames, MaxSegs - 1)

\* number of records of tests with the given status
RECURSIVE CountStatus(_, _)
CountStatus(tests, st) ==
    IF tests = <<>> THEN 0
    ELSE (IF tests[1].status = st THEN 1 ELSE 0) + CountStatus(Tail(tests), st)

\* the counts of res are the ones the SUITE_END frame e carries
CountsFromSuiteEnd(res, e) ==
    /\ res.total = At(e, 3) * 256 + At(e, 4)
    /\ res.passed = At(e, 5) * 256 + At(e, 6)
    /\ res.failed = At(e, 7) * 256 + At(e, 8)

\* C5: after a run of TEST_PASS/TEST_FAIL frames followed by a SUITE_END
\* frame with a payload of at least 6 bytes, total, passed and failed of the
\* report equal the SUITE_END values, whatever the number of observed records.
C5_CountAuthority ==
    \A run \in ResultFrameRuns : \A e \in SuiteEndFrames :
        (pc = "parse_done" /\ uart_data = run \o e)
            => CountsFromSuiteEnd(results, e)

C5_Witness ==
    /\ pc = "parse_done"
    /\ \E run \in ResultFrameRuns : \E e \in SuiteEndFrames :
          /\ uart_data = run \o e
          /\ CountsFromSuiteEnd(results, e)
    /\ Len(results.tests) = 2
    /\ results.passed # CountStatus(results.tests, "pass")
    /\ results.failed # CountStatus(results.tests, "fail")

\* ========================================================================
\* Properties of the emulator session (SpecEmu)
\* ========================================================================
\* the trailing 8 bytes of data are DE AD BE EF CA FE BA BE
SentinelAtEnd(data) ==
    /\ Len(data) >= 8
    /\ \A k \in 1 .. 8 :
          data[Len(data) - 8 + k]
            = <<222, 173, 190, 239, 202, 254, 186, 190>>[k]

\* C6: completion is signalled exactly once, in the step that appends the
\* last of the 8 Sentinel bytes: a step signals only if it appends one byte
\* that makes the buffer end with the Sentinel and nothing was signalled
\* before; a step that appends such a byte signals; after the signal the
\* capture loop appends nothing more.
C6_SentinelOnce ==
    [][ /\ (signals' # signals \/ test_complete' # test_complete)
            => /\ signals = 0 /\ signals' = 1
               /\ ~test_complete /\ test_complete'
               /\ Len(uart_data') = Len(uart_data) + 1
               /\ SubSeq(uart_data', 1, Len(uart_data)) = uart_data
               /\ SentinelAtEnd(uart_data')
        /\ (uart_data' # uart_data /\ SentinelAtEnd(uart_data'))
            => signals' = signals + 1
        /\ test_complete => uart_data' = uart_data ]_vars

C6_Witness ==
    /\ signals = 1
    /\ test_complete
    /\ uart_data = SubSeq(END_MARKER, 1, 7) \o END_MARKER

\* the main thread is in parse_results, which writes out and scans uart_data
ControllerReadsBuffer == pc \in {"parse_results", "parse_loop", "parse_done"}

\* C10: whenever the controller reads or writes out the capture buffer, the
\* capture task has ended and completion was signalled, so it cannot append.
C10_Handoff ==
    ControllerReadsBuffer => (cap_pc = "done" /\ test_complete)

C10_Witness ==
    /\ pc = "parse_loop"
    /\ offset > 0
    /\ cap_pc = "done"
    /\ stream # <<>>

\* the wait ended because the timeout elapsed, and the process has exited
ExitedAfterTimeout ==
    pc = "exit" /\ cap_pc # "idle" /\ ~completed /\ ~signalled

\* C3: after a timeout the process exits non-zero and the bytes captured so
\* far have been written to the output file.
C3_OutputWrittenOnTimeout ==
    ExitedAfterTimeout
        => (exit_code # 0 /\ output.written /\ output.bytes = uart_data)

\* ========================================================================
\* Properties of the controller session (Spec)
\* ========================================================================
\* C2: the process exits with code 0 if and only if the wait ended in
\* Completed and the failed count decoded from the log is 0.
C2_ExitDisposition ==
    pc = "exit"
        => (exit_code = 0
              <=> (wait_end = "completed" /\ ParseAll(uart_log).failed = 0))

\* the success flag wait_for_completion returns when the board reports the
\* error state ("return False, self.get_uart_log()")
FlagReturnedOnError == FALSE

\* C4: what wait_for_completion returns to main() after the deadline elapsed
\* differs from what it returns when the board reported the error state.
C4_TimedOutDistinct ==
    (mode = "http" /\ pc = "save_log" /\ wait_end = "timeout")
        => wait_success # FlagReturnedOnError

\* the chunks written to the serial link, in order
ChunksOnWire == SelectSeq(wire, LAMBDA w : w.kind = "chunk")

\* C7: when the ack of chunk k is missing or not OK, no further ack is read,
\* the failure is reported with the 1-based number k, upload_iso has failed
\* and the process exits non-zero, and chunk k is the last thing written to
\* the link; a chunk failure is reported only for such an ack.
C7_ChunkAbort ==
    /\ \A k \in 1 .. Len(acks) :
          acks[k] # <<16>>
            => /\ k = Len(acks)
               /\ failed_chunk = k
               /\ failed_op = "upload_iso"
               /\ pc = "exit"
               /\ exit_code = 1
               /\ Len(ChunksOnWire) = k
               /\ wire[Len(wire)].kind = "chunk"
               /\ wire[Len(wire)].lo = (k - 1) * 65536
    /\ failed_chunk # 0
          => (failed_chunk \in 1 .. Len(acks) /\ acks[failed_chunk] # <<16>>)

C7_Witness ==
    /\ failed_chunk = 2
    /\ acks = << <<16>>, <<>> >>
    /\ pc = "exit"

\* the upload of the serial variant returned True
SerialUploadSucceeded ==
    /\ mode = "serial"
    /\ \/ pc \in {"run_test", "wait_for_completion", "wait_loop"}
       \/ (pc = "exit" /\ Len(ops) >= 3)

\* C8: chunks are written only after the UPLOAD frame (the second command,
\* carrying the size) was answered OK; the k-th chunk written starts at
\* (k-1)*65536 and has 1..65536 bytes; each chunk but the last written was
\* acknowledged by exactly one OK byte before the next was written; on
\* success the chunks cover the image exactly, ceil(size/65536) of them.
C8_ChunkProtocol ==
    LET ch == ChunksOnWire
        n  == Len(ch)
    IN  /\ n > 0 => /\ Len(rsps) >= 2 /\ rsps[2] = 16
                    /\ wire[2].kind = "frame"
                    /\ wire[2].bytes[1] = 2
                    /\ \A j \in 3 .. 2 + n : wire[j].kind = "chunk"
        /\ \A k \in 1 .. n :
              /\ ch[k].lo = (k - 1) * 65536
              /\ ch[k].hi > ch[k].lo
              /\ ch[k].hi - ch[k].lo <= 65536
        /\ Len(acks) = n
        /\ \A k \in 1 .. n - 1 : acks[k] = <<16>>
        /\ \A k \in 1 .. n : Len(acks[k]) <= 1
        /\ SerialUploadSucceeded
              => /\ n * 65536 >= iso_size
                 /\ (n - 1) * 65536 < iso_size
                 /\ n > 0 => (ch[1].lo = 0 /\ ch[n].hi = iso_size)
                 /\ \A k \in 1 .. n - 1 : ch[k].hi = ch[k + 1].lo
                 /\ \A k \in 1 .. n : acks[k] = <<16>>

C8_Witness ==
    /\ mode = "serial"
    /\ pc = "run_test"
    /\ iso_size = 65537
    /\ Len(ChunksOnWire) = 2
    /\ ChunksOnWire[2] = [kind |-> "chunk", lo |-> 65536, hi |-> 65537]

\* C9: main() calls the operations in the order ping, upload_iso, run_test,
\* wait_for_completion; when ping, upload_iso or run_test fails the process
\* has exited non-zero and the failed operation is the last one called.
C9_Lifecycle ==
    /\ Len(ops) <= 4
    /\ ops = SubSeq(<<"ping", "upload_iso", "run_test",
                      "wait_for_completion">>, 1, Len(ops))
    /\ failed_op \in {"ping", "upload_iso", "run_test"}
          => /\ pc = "exit"
             /\ exit_code # 0
             /\ ops[Len(ops)] = failed_op

C9_Witness ==
    /\ failed_op = "run_test"
    /\ pc = "exit"
    /\ ops = <<"ping", "upload_iso", "run_test">>

\* ========================================================================
\* Properties of send_command's framing (SpecCodec)
\* ========================================================================
\* send_command has returned after its reads
ReadsReturned == pc = "send_command_done" /\ ser = "open"

\* the whole packet came back: the channel lost nothing
Lossless == echo_len = 5 + Len(cmd_in.data)

\* C12: frame round trip. Decoding, with send_command's reads, the bytes
\* that send_command's packet encoding produces for (code, payload) over a
\* channel that loses nothing returns exactly (code, payload), an empty
\* payload included, and leaves no byte unread.
C12_RoundTrip ==
    (ReadsReturned /\ Lossless) => (rsp = cmd_in /\ rx = <<>>)

\* a two-byte payload went round and came back
C12_Witness ==
    /\ ReadsReturned
    /\ Lossless
    /\ Len(cmd_in.data) = 2
    /\ cmd_in.code = 255
    /\ rsp = cmd_in

\* the only error result send_command has: RSP_ERROR with no data
ErrorReturn == [code |-> RSP_ERROR, data |-> <<>>]

\* C13: frame length on decode. Every frame send_command returns has
\* exactly as many payload bytes as its length field declares; when the
\* length field or the payload arrives cut short, the result is the error
\* return, never a frame with a shortened or an empty payload.
C13_DeclaredLength ==
    (ReadsReturned /\ echo_len >= 1) =>
        \/ Lossless /\ Len(rsp.data) = Len(cmd_in.data)
        \/ ~Lossless /\ rsp = ErrorReturn

\* what send_command returns when its first read yields nothing
NoResponseResult ==
    LET r == SendCommandResult(<<>>) IN [code |-> r.code, data |-> r.data]

\* C14: no response is told apart. The result of send_command when its
\* first one-byte read yields nothing differs from every result it returns
\* for a frame that did arrive, the frame RSP_ERROR with an empty payload
\* included: a frame that arrived whole is never returned as the value
\* the empty first read returns.
C14_NoResponseDistinct ==
    (ReadsReturned /\ Lossless) => rsp # NoResponseResult

\* ========================================================================
\* Properties of the termination signal (SpecEmu)
\* ========================================================================
\* C15: orderly shutdown on a termination signal. In every phase of the
\* session, once SIGTERM or SIGINT has been handled the process has exited
\* with a non-zero code and no child process is left alive.
C15_SignalShutdown ==
    signalled =>
        (pc = "exit" /\ exit_code # 0 /\ qemu \notin {"spawned", "running"})

\* ========================================================================
\* Properties of the controller's wait (Spec, SpecFair)
\* ========================================================================
\* a GET_LOG command frame is among the writes to the serial port
LogFetched ==
    \E j \in DOMAIN wire : wire[j] = FrameWritten(CMD_GET_LOG, <<>>)

\* send_command was called on the port after close(): the write raised
WriteAfterClose ==
    ser = "closed" /\ raised /\ failed_op = "wait_for_completion"

\* C16: log fetch on the terminal transition, serial variant. Whenever the
\* wait has ended (completed, error or timeout) the GET_LOG command has
\* been written to the port while it was open, and no command is sent on
\* the port after it has been closed.
C16_LogFetchBeforeClose ==
    (mode = "serial" /\ wait_end # "none")
        => (LogFetched /\ ~WriteAfterClose)

\* wait_for_completion has returned its (success, log) pair to main()
WaitReturned ==
    /\ wait_end # "none"
    /\ pc \in {"save_log", "exit"}
    /\ failed_op # "wait_for_completion"

\* C17: bounded poll wait. Whatever status replies the target gives, the
\* polling wait_for_completion eventually returns; it returns success only
\* if a completed status was observed, it has left the polling loop once
\* completed or error was observed, and once the elapsed time has reached
\* the timeout it leaves the loop without another status query.
C17_BoundedPoll ==
    /\ (pc = "wait_loop") ~> WaitReturned
    /\ [](wait_success => wait_end = "completed")
    /\ [](wait_end \in {"completed", "error"} => pc # "wait_loop")
    /\ [][(pc = "wait_loop" /\ elapsed >= timeout)
            => (pc' # "wait_loop" /\ wire' = wire /\ rsps' = rsps)]_vars

\* ========================================================================
\* Properties of the capture thread at end of stream (SpecEmuFair)
\* ========================================================================
\* the capture loop has ended and the buffer does not end with the Sentinel:
\* read(1) returned nothing
EndOfStream == cap_pc = "done" /\ ~EndsWith(uart_data, END_MARKER)

\* C18: end of stream before the Sentinel. When the target's output ends
\* without the Sentinel, the capture thread stops without signalling
\* completion, the session is never reported completed, and the session
\* ends timed out, with exit code 1, once the deadline has elapsed (or
\* earlier on a termination signal).
C18_EndOfStream ==
    /\ [](EndOfStream => (~test_complete /\ ~completed /\ signals = 0))
    /\ EndOfStream ~>
         (pc = "exit" /\ exit_code = 1 /\ ~completed
            /\ (signalled \/ retval = 1))

\* the stream ended after some bytes, the wait timed out, the process exited
C18_Witness ==
    /\ EndOfStream
    /\ uart_data # <<>>
    /\ pc = "exit"
    /\ ~signalled
    /\ ~completed
    /\ retval = 1
    /\ exit_code = 1

\* ========================================================================
\* Properties of the decoder at the end of the buffer (SpecDecode)
\* ========================================================================
\* at position off stands a telemetry code and a 2-byte length whose payload
\* would run past the end of data
OverrunAt(data, off) ==
    /\ off + 2 < Len(data)
    /\ At(data, off) \in 100 .. 105
    /\ off + 3 + At(data, off + 1) * 256 + At(data, off + 2) > Len(data)

\* C19: incomplete trailing frame. When the scan stands at a valid code
\* byte followed by a length whose payload would overrun the buffer, it
\* stops at that position, and the report is the report obtained by
\* decoding only the bytes before that position; the decoder does not fail.
C19_TrailingFrame ==
    /\ [][(pc = "parse_loop" /\ OverrunAt(uart_data, offset))
            => (pc' = "parse_done" /\ offset' = offset
                  /\ results' = results /\ ~raised')]_vars
    /\ []((pc = "parse_done" /\ OverrunAt(uart_data, offset))
            => results = ParseAll(Slice(uart_data, 0, offset)))

\* the report the claim C20 describes for a buffer that holds one frame of
\* code cmd with the short payload p
ShortFrameReport(cmd, p) ==
    LET num == IF Len(p) >= 2 THEN p[1] * 256 + p[2] ELSE 0
    IN  IF cmd = CMD_TEST_PASS
        THEN [EmptyResults EXCEPT
                !.passed = 1,
                !.tests = <<[num |-> num, status |-> "pass", duration |-> 0]>>]
        ELSE IF cmd = CMD_TEST_FAIL
        THEN [EmptyResults EXCEPT
                !.failed = 1,
                !.tests = <<[num |-> num, status |-> "fail", error |-> <<>>]>>]
        ELSE IF cmd = CMD_TEST_SKIP
        THEN [EmptyResults EXCEPT
                !.skipped = 1,
                !.tests = <<[num |-> num, status |-> "skip", reason |-> <<>>]>>]
        ELSE EmptyResults

\* C20: short payload tolerance. For every telemetry code and every payload
\* length below that code's minimum, decoding a buffer that holds the frame
\* does not fail: a missing number is 0, a missing duration 0, a missing
\* string empty, TEST_PASS, TEST_FAIL and TEST_SKIP still append their
\* record, and a short TEST_SUITE_END leaves the counts unchanged.
C20_ShortPayload ==
    \A cmd \in 100 .. 105 : \A n \in 0 .. 5 : \A t \in Trailers :
        LET p == Slice(ShortPayloadBytes, 0, n)
        IN  (/\ n < MinPayload(cmd)
             /\ uart_data = TelemetryFrame(cmd, p) \o t
             /\ pc = "parse_done")
                => (results = ShortFrameReport(cmd, p) /\ ~raised)

\* ========================================================================
\* Properties of a well-formed session (SpecEmu)
\* ========================================================================
\* the number of skip records among the test results rs
RECURSIVE SkipCount(_)
SkipCount(rs) ==
    IF rs = <<>> THEN 0
    ELSE (IF Head(rs).status = "skip" THEN 1 ELSE 0) + SkipCount(Tail(rs))

\* the report C11 describes for the well-formed stream w
WellFormedReport(w) ==
    [suite_name |-> w.start.name, total |-> w.end.total,
     passed |-> w.end.passed, failed |-> w.end.failed,
     skipped |-> SkipCount(w.tests), tests |-> w.tests]

\* the session has decoded the whole buffer, undisturbed
Decoded ==
    /\ pc \in {"parse_done", "finally", "exit"}
    /\ completed
    /\ ~raised
    /\ ~signalled

\* the stream of the scenario: suite "core" with 2 tests, test 1 passes in
\* 42 ms, test 2 fails with "assert x==y", SUITE_END(2, 1, 1), Sentinel
ScenarioStream ==
    WellFormedStream([expected |-> 2, name |-> TextCore],
                     <<[num |-> 1, status |-> "pass", duration |-> 42],
                       [num |-> 2, status |-> "fail", error |-> TextAssert]>>,
                     [total |-> 2, passed |-> 1, failed |-> 1])

ScenarioReport ==
    [suite_name |-> TextCore, total |-> 2, passed |-> 1, failed |-> 1,
     skipped |-> 0,
     tests |-> <<[num |-> 1, status |-> "pass", duration |-> 42],
                 [num |-> 2, status |-> "fail", error |-> TextAssert]>>]

\* C11: well-formed stream decoding. For a buffer SUITE_START(expected,
\* name), any result frames, SUITE_END(total, passed, failed), Sentinel,
\* the report has suite_name = name, one record per result frame in order
\* with its number and duration or message, and the counts of SUITE_END;
\* the session exits with 1 if failed > 0 and with 0 otherwise. For the
\* scenario stream the report is {core, 2, 1, 1, 0, [{1, pass, 42},
\* {2, fail, "assert x==y"}]} and the exit code is 1.
C11_WellFormedStream ==
    /\ \A w \in WellFormedCases :
          (uart_data = w.bytes /\ Decoded)
              => /\ results = WellFormedReport(w)
                 /\ pc = "exit"
                      => exit_code = (IF w.end.failed > 0 THEN 1 ELSE 0)
    /\ (uart_data = ScenarioStream /\ Decoded)
          => /\ results = ScenarioReport
             /\ pc = "exit" => exit_code = 1

\* the scenario session has decoded its buffer and exited
C11_Witness ==
    /\ uart_data = ScenarioStream
    /\ Decoded
    /\ pc = "exit"
    /\ exit_code = 1
    /\ Len(results.tests) = 2
    /\ results.suite_name = TextCore

\* ========================================================================
\* Properties of the decoder over whole buffers (SpecDecode, SpecDecodeFair)
\* ========================================================================
\* data from position off on is a back-to-back run of complete telemetry
\* frames that ends exactly at the end of data
RECURSIVE FrameChainFrom(_, _)
FrameChainFrom(data, off) ==
    IF off = Len(data) THEN TRUE
    ELSE /\ off + 3 <= Len(data)
         /\ data[off + 1] \in 100 .. 105
         /\ off + 3 + data[off + 2] * 256 + data[off + 3] <= Len(data)
         /\ FrameChainFrom(data, off + 3 + data[off + 2] * 256 + data[off + 3])

\* the number of TEST_PASS, TEST_FAIL and TEST_SKIP frames of such a run
RECURSIVE ResultFrameCount(_, _)
ResultFrameCount(data, off) ==
    IF off = Len(data) THEN 0
    ELSE (IF data[off + 1] \in 102 .. 104 THEN 1 ELSE 0)
         + ResultFrameCount(data, off + 3 + data[off + 2] * 256 + data[off + 3])

\* C21: every complete frame is applied. For a buffer that is a back-to-back
\* run of valid telemetry frames, with no noise and no trailing byte, the
\* decoder applies every frame, a last frame with an empty payload included:
\* the report has as many records as the buffer has TEST_PASS, TEST_FAIL and
\* TEST_SKIP frames.
C21_EveryFrameApplied ==
    (pc = "parse_done" /\ FrameChainFrom(uart_data, 0))
        => Len(results.tests) = ResultFrameCount(uart_data, 0)

\* C22: decoder termination and bounds. For every buffer, the empty one and
\* those shorter than 3 bytes included, the scan loop ends; every iteration
\* after which the loop goes on has moved the offset forward; and every
\* index an iteration reads (code, length bytes, payload) lies in the buffer.
C22_ScanTerminates ==
    /\ (pc = "parse_loop") ~> (pc = "parse_done")
    /\ [][(pc = "parse_loop" /\ pc' = "parse_loop") => offset' > offset]_vars
    /\ []((pc = "parse_loop" /\ offset < Len(uart_data) - 3)
            => IndicesRead(uart_data, offset) \subseteq 0 .. (Len(uart_data) - 1))
    /\ [](offset >= 0 /\ offset <= Len(uart_data))

\* a scan has ended at the end of a buffer after it applied two frames
C22_Witness ==
    /\ pc = "parse_done"
    /\ offset = Len(uart_data)
    /\ Len(results.tests) = 2

\* the scan of a buffer shorter than 3 bytes has ended where it began
C22_WitnessShort ==
    /\ pc = "parse_done"
    /\ Len(uart_data) = 2
    /\ offset = 0

\* the frames that stand in data before position upto, found by walking data
\* from position p: a byte outside 100..105 is stepped over, a code byte
\* heads a frame; each frame is given by its code, the length of its payload
\* and the number in its first two payload bytes
RECURSIVE FramesBefore(_, _, _)
FramesBefore(data, p, upto) ==
    IF p >= upto THEN <<>>
    ELSE IF data[p + 1] \notin 100 .. 105 THEN FramesBefore(data, p + 1, upto)
    ELSE LET plen == data[p + 2] * 256 + data[p + 3]
         IN  <<[code |-> data[p + 1], plen |-> plen,
                num |-> IF plen >= 2 THEN data[p + 4] * 256 + data[p + 5]
                        ELSE 0]>>
             \o FramesBefore(data, p + 3 + plen, upto)

IsResultFrame(f) == f.code \in 102 .. 104

StatusOfCode(code) ==
    IF code = 102 THEN "pass" ELSE IF code = 103 THEN "fail" ELSE "skip"

\* no SUITE_END frame with 6 or more payload bytes is among the frames fs
NoSuiteEndIn(fs) ==
    \A i \in DOMAIN fs : ~(fs[i].code = 105 /\ fs[i].plen >= 6)

\* C23: count/record consistency. At every point of decoding, the records
\* are those of the TEST_PASS, TEST_FAIL and TEST_SKIP frames met so far, in
\* the order of the frames; while no SUITE_END frame with 6 or more payload
\* bytes has been applied, passed, failed and skipped equal the number of
\* pass, fail and skip records; and applying a SUITE_END frame changes
\* neither skipped nor the records.
C23_CountsMatchRecords ==
    /\ [](pc \in {"parse_loop", "parse_done"} =>
            LET fs == FramesBefore(uart_data, 0, offset)
                rs == SelectSeq(fs, IsResultFrame)
            IN  /\ Len(results.tests) = Len(rs)
                /\ \A i \in DOMAIN rs :
                      /\ results.tests[i].status = StatusOfCode(rs[i].code)
                      /\ results.tests[i].num = rs[i].num
                /\ results.skipped = CountStatus(results.tests, "skip")
                /\ NoSuiteEndIn(fs) =>
                      /\ results.passed = CountStatus(results.tests, "pass")
                      /\ results.failed = CountStatus(results.tests, "fail"))
    /\ [][(pc = "parse_loop" /\ offset < Len(uart_data) - 3
             /\ uart_data[offset + 1] = 105)
            => (results'.skipped = results.skipped
                  /\ results'.tests = results.tests)]_vars

\* a pass, a fail and a skip frame were decoded and counted
C23_Witness ==
    /\ pc = "parse_done"
    /\ Len(results.tests) = 3
    /\ results.passed = 1
    /\ results.failed = 1
    /\ results.skipped = 1
    /\ NoSuiteEndIn(FramesBefore(uart_data, 0, offset))

\* ========================================================================
\* Properties of the completed session (SpecEmu)
\* ========================================================================
\* the positions of data at which the 8 bytes read last are the Sentinel
SentinelMatches(data) ==
    { k \in 8 .. Len(data) : SentinelAtEnd(SubSeq(data, 1, k)) }

\* C24: completed implies a sentinel-terminated buffer. Whenever
\* wait_for_completion has reported completion, the captured buffer ends
\* with the 8 Sentinel bytes, the buffer ended with the Sentinel at no
\* earlier append and completion was signalled once, and the capture thread
\* appends no byte once completion has been signalled.
C24_CompletedBuffer ==
    /\ [](completed =>
            /\ SentinelAtEnd(uart_data)
            /\ SentinelMatches(uart_data) = {Len(uart_data)}
            /\ signals = 1
            /\ test_complete)
    /\ [][test_complete => uart_data' = uart_data]_vars

\* a completed session whose target wrote on after the Sentinel
C24_Witness ==
    /\ completed
    /\ pc = "exit"
    /\ exit_code = 0
    /\ SentinelAtEnd(uart_data)
    /\ stream # <<>>

\* start_qemu has returned True: self.qemu_process holds the child
ChildStarted == qemu \in {"running", "exited", "stopped"}

\* C25: child cleanup on every exit path. Once run has started the child,
\* every way run ends (completion with or without failed tests, timeout, an
\* exception while waiting or parsing) has passed through cleanup at least
\* once and the child is stopped when the process exits; the second cleanup
\* of the timeout path finds the child stopped, leaves it so, and the exit
\* code stays 1.
C25_CleanupOnExit ==
    /\ []((pc = "exit" /\ ChildStarted)
            => (cleanups >= 1 /\ qemu = "stopped"))
    /\ [][(pc = "finally" /\ cleanups >= 1)
            => /\ qemu = "stopped"
               /\ qemu' = "stopped"
               /\ pc' = "exit" => exit_code' = 1]_vars

\* the timeout path has run cleanup twice and the process has exited with 1
C25_Witness ==
    /\ pc = "exit"
    /\ ~completed
    /\ ~signalled
    /\ cleanups = 2
    /\ qemu = "stopped"
    /\ exit_code = 1

====
